---- MODULE Spec2Model ----
(***************************************************************************)
(* TfsDataFrame (src/src/tfsdataframe.rs) and DataVector arithmetic        *)
(* (src/src/dataframe.rs).                                                  *)
(*                                                                         *)
(* A token is a sequence of characters, a line is the sequence of tokens   *)
(* that split_whitespace yields for it.  TfsDataFrame::open is modelled    *)
(* one line of the reader at a time; the lines are inputs of the steps.    *)
(* Vec positions and the values of the two HashMaps are 0-based as in the  *)
(* code; a Vec v is a sequence, so the code's v[i] is v[i + 1] here.       *)
(* A panic is modelled by the name of the panicking place.                 *)
(***************************************************************************)
EXTENDS Integers, Sequences, FiniteSets, TLC

\* ---------------------------------------------------------------- bounds
MaxCols == 2
MaxRows == 2

\* ---------------------------------------------------------------- tokens
Star == <<"*">>
Dollar == <<"$">>
At == <<"@">>
TagLe == <<"%", "l", "e">>
TagS == <<"%", "s">>
Quote == "\""
Digits == {"0", "1", "2", "3", "4", "5", "6", "7", "8", "9"}

NameA == <<"A">>
NameB == <<"B">>
PropP == <<"P">>
TokX == <<"x">>
TokQX == <<Quote, "x", Quote>>
TokQQX == <<Quote, Quote, "x", Quote, Quote>>
Tok1 == <<"1">>

ColNames == {NameA, NameB}
TypeTags == {TagLe, TagS}
DataTokens == {TokX, Tok1}

SeqsUpTo(S, n) == UNION {[1..k -> S] : k \in 0..n}

\* The `*` lines name the columns A, B, A, B, ... in this order.
NameAt(i) == IF i % 2 = 1 THEN NameA ELSE NameB
StarLines == {<<Star>> \o [i \in 1..k |-> NameAt(i)] : k \in 0..MaxCols}
DollarLines == {<<Dollar>> \o s : s \in SeqsUpTo(TypeTags, MaxCols)}
AtLines ==
    { <<At, PropP, TagLe, Tok1>>, <<At, PropP, TagLe, TokX>>, <<At, PropP, TagLe>>, <<At, PropP>>, <<At>> }
OtherLines == { <<TokX, Tok1>>, <<>> }
HeaderLines == StarLines \cup DollarLines \cup AtLines \cup OtherLines
\* A line with one token more than any table has columns.
LongLine == [i \in 1..(MaxCols + 1) |-> IF i = 2 THEN Tok1 ELSE TokX]
\* Lines with a quoted token, quoted once and quoted twice.
QuotedLines == {<<TokQX>>, <<TokQQX>>, <<TokX, TokQX>>, <<TokX, TokQQX>>}
DataLines == SeqsUpTo(DataTokens, MaxCols) \cup QuotedLines \cup {<<Star, TokX>>, LongLine}

\* ---------------------------------------------------------------- panics
NoPanic == "none"
PanicEof == "open:86 reader.next().unwrap() on None"
PanicIoErr == "open:86 reader.next().unwrap().unwrap() on Err"
PanicNoToken == "open:89 line_it.next().unwrap() on None"
PanicPropName == "open:93 line_it.next().unwrap() on None"
PanicPropType == "open:94 line_it.next().unwrap() on None"
PanicPropValue == "open:97 line_it.next().unwrap() on None"
PanicPropParse == "open:97 parse().unwrap() on Err"
PanicCellParse == "open:125 parse().unwrap() on Err"
PanicHeaderKey == "set_index:159 column_headers[column] no entry"
PanicColumnsIdx == "set_index:159 columns[..] index out of bounds"
PanicNotText == "set_index:164 column not in the df"
PanicLenIdx == "len:170 columns[0] index out of bounds"
PanicColExpect == "col:209 column not in dataframe"
PanicColIdx == "col:206 columns[..] index out of bounds"
PanicMoveExpect == "move_col:216 column not in dataframe"
PanicMoveIdx == "move_col:213 Vec::remove index out of bounds"
PanicIndexStr == "loc:228 index_str[k] no entry"
PanicRealIdx == "loc:232 v[idx] index out of bounds"
PanicTextIdx == "loc:233 v[idx] index out of bounds"
PanicAddRhs == "add:215 rhs has to be data"
PanicAddLhs == "add:218 lhs has to be data"
PanicSubLen == "sub:246 Vectors have to have the same length"
PanicSubRhs == "sub:249 rhs has to be data"
PanicSubLhs == "sub:252 lhs has to be data"

Ok(v) == [panic |-> NoPanic, val |-> v]
Panic(p) == [panic |-> p, val |-> <<>>]
IsOk(r) == r.panic = NoPanic

\* ------------------------------------------------------------- HashMap
EmptyMap == [k \in {} |-> 0]
Insert(m, k, v) == [x \in (DOMAIN m) \cup {k} |-> IF x = k THEN v ELSE m[x]]

\* ------------------------------------------------------------ DataVector
RealVector(v) == [tag |-> "RealVector", v |-> v]
TextVector(v) == [tag |-> "TextVector", v |-> v]

\* ------------------------------------------------------------ str helpers
\* str::trim_matches('"'): every leading and every trailing quote goes.
RECURSIVE TrimStart(_)
TrimStart(t) == IF t # <<>> /\ Head(t) = Quote THEN TrimStart(Tail(t)) ELSE t
RECURSIVE TrimEnd(_)
TrimEnd(t) ==
    IF t # <<>> /\ t[Len(t)] = Quote THEN TrimEnd(SubSeq(t, 1, Len(t) - 1)) ELSE t
TrimMatches(t) == TrimEnd(TrimStart(t))

\* str::parse::<T>() for the tokens of this alphabet: a non-empty run of
\* decimal digits parses to its value, anything else is Err.
DigitVal(c) == CHOOSE n \in 0..9 : <<"0","1","2","3","4","5","6","7","8","9">>[n + 1] = c
RECURSIVE Decimal(_)
Decimal(t) == IF t = <<>> THEN 0 ELSE 10 * Decimal(SubSeq(t, 1, Len(t) - 1)) + DigitVal(t[Len(t)])
Parses(t) == t # <<>> /\ \A i \in 1..Len(t) : t[i] \in Digits
Parse(t) == IF Parses(t) THEN Ok(Decimal(t)) ELSE Panic("Err")

\* Iterator<&str>::collect::<String>(): the tokens joined with nothing between.
RECURSIVE Collect(_)
Collect(ts) == IF ts = <<>> THEN <<>> ELSE Head(ts) \o Collect(Tail(ts))

Min(a, b) == IF a <= b THEN a ELSE b

\* ------------------------------------------------------------ cell types
DataValueReal(x) == [tag |-> "Real", val |-> x]
DataValueText(t) == [tag |-> "Text", val |-> t]
DataViewReal(x) == [tag |-> "Real", val |-> x]
DataViewText(t) == [tag |-> "Text", val |-> t]

\* Indexer::Index(usize) and Indexer::Key(&str)
Index(i) == [tag |-> "Index", i |-> i]
Key(k) == [tag |-> "Key", k |-> k]

\* ------------------------------------------------------------------ state
VARIABLES
    pc,         \* where open is: "header", "setup", "data"; then "ready" (Ok(df)
                \* returned) or "panicked" (open unwound); "aborted" once a
                \* call on the table has panicked
    df,         \* the TfsDataFrame: open's local, then the caller's table
    line,       \* the line the reader yielded last, as tokens
    ntokens,    \* the number of tokens of each line read after the header, kept
                \* until the first call on the table
    fault,      \* what was wrong with the input read so far, "none" if nothing
    last,       \* the last call made and how it ended
    old_index,  \* index_str when the last call on the table was entered
    origin      \* for each element of df.columns, the position it was created at

vars == <<pc, df, line, ntokens, fault, last, old_index, origin>>

\* TfsDataFrame { columns: Vec::new(), column_headers: HashMap::new(), ... }
NewDf ==
    [ columns |-> <<>>, column_headers |-> EmptyMap, properties |-> EmptyMap,
      index_str |-> EmptyMap, colnames |-> <<>>, coltypes |-> <<>> ]

Call(op, column, panic) == [op |-> op, column |-> column, panic |-> panic]

Init ==
    /\ pc = "header"
    /\ df = NewDf
    /\ line = <<>>
    /\ ntokens = <<>>
    /\ fault = "none"
    /\ last = Call("open", <<>>, NoPanic)
    /\ old_index = EmptyMap
    /\ origin = <<>>

\* ------------------------------------------------------- open: the header
\* The `@` arm of the match, on the tokens after the `@`.
PropertyLine(d, rest) ==
    IF Len(rest) < 1 THEN Panic(PanicPropName)
    ELSE IF Len(rest) < 2 THEN Panic(PanicPropType)
    ELSE IF rest[2] = TagLe
         THEN IF Len(rest) < 3 THEN Panic(PanicPropValue)
              ELSE IF ~IsOk(Parse(rest[3])) THEN Panic(PanicPropParse)
              ELSE Ok([d EXCEPT !.properties =
                          Insert(@, rest[1], DataValueReal(Parse(rest[3]).val))])
         ELSE Ok([d EXCEPT !.properties =
                     Insert(@, rest[1], DataValueText(Collect(SubSeq(rest, 3, Len(rest)))))])

\* One pass of the header loop on the tokens of one line, up to the test
\* that ends the loop.
HeaderLine(d, l) ==
    IF l = <<>> THEN Panic(PanicNoToken)
    ELSE CASE Head(l) = Star -> Ok([d EXCEPT !.colnames = @ \o Tail(l)])
           [] Head(l) = Dollar -> Ok([d EXCEPT !.coltypes = @ \o Tail(l)])
           [] Head(l) = At -> PropertyLine(d, Tail(l))
           [] OTHER -> Ok(d)

\* The exit test with || for &&.
HeaderParsedEither(d) == Len(d.colnames) > 0 \/ Len(d.coltypes) > 0

\* if df.colnames.len() > 0 && df.coltypes.len() > 0 { break; }
HeaderParsed(d) == Len(d.colnames) > 0 /\ Len(d.coltypes) > 0

\* What a line of the header does wrong, judged on the line alone.
HeaderFault(l) ==
    IF l # <<>> /\ Head(l) = At /\ Len(l) >= 4 /\ l[3] = TagLe /\ ~Parses(l[4])
    THEN "parse"
    ELSE IF l = <<>> \/ (Head(l) = At /\ (Len(l) < 3 \/ (l[3] = TagLe /\ Len(l) < 4)))
    THEN "tokens"
    ELSE "none"

\* A panic inside open unwinds it: the local df is dropped, nothing is returned.
Unwind(d) == NewDf

\* The header loop leaving at the end of the input instead of panicking.
HeaderEndBreaks(d) == [pc |-> "setup", df |-> d, panic |-> NoPanic]

\* reader.next() is None inside the header loop: unwrap() panics.
HeaderEnd(d) == [pc |-> "panicked", df |-> Unwind(d), panic |-> PanicEof]

HeaderStep ==
    /\ pc = "header"
    /\ \E l \in HeaderLines :
          LET r == HeaderLine(df, l) IN
          /\ IsOk(r)
          /\ Len(r.val.colnames) <= MaxCols
          /\ Len(r.val.coltypes) <= MaxCols
          /\ df' = r.val
          /\ line' = l
          /\ fault' = IF HeaderFault(l) # "none" THEN HeaderFault(l) ELSE fault
          /\ pc' = IF HeaderParsed(r.val) THEN "setup" ELSE "header"
    /\ UNCHANGED <<ntokens, last, old_index, origin>>

HeaderPanic ==
    /\ pc = "header"
    /\ \E l \in HeaderLines :
          LET r == HeaderLine(df, l) IN
          /\ ~IsOk(r)
          /\ df' = Unwind(df)
          /\ line' = l
          /\ fault' = HeaderFault(l)
          /\ last' = Call("open", <<>>, r.panic)
    /\ pc' = "panicked"
    /\ UNCHANGED <<ntokens, old_index, origin>>

HeaderEof ==
    /\ pc = "header"
    /\ LET r == HeaderEnd(df) IN
          /\ pc' = r.pc
          /\ df' = r.df
          /\ last' = Call("open", <<>>, r.panic)
    /\ fault' = "eof"
    /\ line' = <<>>
    /\ UNCHANGED <<ntokens, old_index, origin>>

\* --------------------------------------------------- open: setup columns
\* for (ia, ib) in df.colnames.iter().zip(df.coltypes.iter()) { ... }
\* The match on the type tag with only the text arm.
NewColumnAlwaysText(type) == TextVector(<<>>)

NewColumn(type) == IF type = TagLe THEN RealVector(<<>>) ELSE TextVector(<<>>)

RECURSIVE SetupFrom(_, _)
SetupFrom(d, i) ==
    IF i > Min(Len(d.colnames), Len(d.coltypes)) THEN d
    ELSE SetupFrom(
            [d EXCEPT !.column_headers = Insert(@, d.colnames[i], Len(d.columns)),
                      !.columns = Append(@, NewColumn(d.coltypes[i]))],
            i + 1)

SetupColumns ==
    /\ pc = "setup"
    /\ df' = SetupFrom(df, 1)
    /\ origin' = [i \in 1..Len(df'.columns) |-> i - 1]
    /\ pc' = "data"
    /\ UNCHANGED <<line, ntokens, fault, last, old_index>>

\* The reader yields Err for a line (bytes that are no UTF-8): the second
\* unwrap() of line 86 panics.
HeaderIoErr ==
    /\ pc = "header"
    /\ pc' = "panicked"
    /\ df' = Unwind(df)
    /\ last' = Call("open", <<>>, PanicIoErr)
    /\ fault' = "io"
    /\ line' = <<>>
    /\ UNCHANGED <<ntokens, old_index, origin>>

\* ------------------------------------------------------ open: data rows
\* The body of `for (idata, icolumn) in line_it.zip(df.columns.iter_mut())`
\* for one pair.
PushCell(column, idata) ==
    IF column.tag = "RealVector"
    THEN IF IsOk(Parse(idata))
         THEN Ok(RealVector(Append(column.v, Parse(idata).val)))
         ELSE Panic(PanicCellParse)
    ELSE Ok(TextVector(Append(column.v, TrimMatches(idata))))

\* The zip of one line's tokens with the columns, from pair i on.
RECURSIVE DataLineFrom(_, _, _)
DataLineFrom(d, l, i) ==
    IF i > Min(Len(l), Len(d.columns)) THEN Ok(d)
    ELSE LET r == PushCell(d.columns[i], l[i]) IN
         IF IsOk(r) THEN DataLineFrom([d EXCEPT !.columns[i] = r.val], l, i + 1)
         ELSE r

\* A data line taken only when it has a token for every column.
DataLineWholeRowsOnly(d, l) == IF Len(l) < Len(d.columns) THEN Ok(d) ELSE DataLineFrom(d, l, 1)

DataLine(d, l) == DataLineFrom(d, l, 1)

\* A line has a token that is no number where the column is a real column.
DataFault(d, l) ==
    IF \E i \in 1..Min(Len(l), Len(d.columns)) :
          d.columns[i].tag = "RealVector" /\ ~Parses(l[i])
    THEN "parse" ELSE "none"

DataStep ==
    /\ pc = "data"
    /\ Len(ntokens) < MaxRows
    /\ \E l \in DataLines :
          LET r == DataLine(df, l) IN
          /\ IsOk(r)
          /\ df' = r.val
          /\ line' = l
          /\ ntokens' = Append(ntokens, Len(l))
          /\ fault' = IF DataFault(df, l) # "none" THEN DataFault(df, l) ELSE fault
    /\ UNCHANGED <<pc, last, old_index, origin>>

DataPanic ==
    /\ pc = "data"
    /\ Len(ntokens) < MaxRows
    /\ \E l \in DataLines :
          LET r == DataLine(df, l) IN
          /\ ~IsOk(r)
          /\ df' = Unwind(df)
          /\ line' = l
          /\ ntokens' = Append(ntokens, Len(l))
          /\ fault' = DataFault(df, l)
          /\ last' = Call("open", <<>>, r.panic)
    /\ pc' = "panicked"
    /\ UNCHANGED <<old_index, origin>>

\* `if let Ok(l) = line`: a line the reader yields as Err is passed over.
DataIoErr ==
    /\ pc = "data"
    /\ Len(ntokens) < MaxRows
    /\ ntokens' = Append(ntokens, 0)
    /\ line' = <<>>
    /\ UNCHANGED <<pc, df, fault, last, old_index, origin>>

\* The reader is exhausted: Ok(df).
DataEof ==
    /\ pc = "data"
    /\ pc' = "ready"
    /\ line' = <<>>
    /\ UNCHANGED <<df, ntokens, fault, last, old_index, origin>>

\* --------------------------------------------------------------- set_index
\* set_index without the clear(): the old entries stay.
ClearKeepsEntries(m) == m

\* self.index_str.clear()
Clear(m) == EmptyMap

\* The loop with an insert that keeps the entry a key already has.
RECURSIVE InsertFromKeepsFirst(_, _, _)
InsertFromKeepsFirst(m, vec, i) ==
    IF i >= Len(vec) THEN m
    ELSE InsertFromKeepsFirst(
            IF vec[i + 1] \in DOMAIN m THEN m ELSE Insert(m, vec[i + 1], i), vec, i + 1)

\* for i in 0..vec.len() { self.index_str.insert(vec[i].clone(), i); }
RECURSIVE InsertFrom(_, _, _)
InsertFrom(m, vec, i) ==
    IF i >= Len(vec) THEN m ELSE InsertFrom(Insert(m, vec[i + 1], i), vec, i + 1)

\* The call set_index(column) on table d: how it ends and the table it leaves.
set_index(d, column) ==
    LET cleared == [d EXCEPT !.index_str = Clear(@)] IN
    IF column \notin DOMAIN d.column_headers
    THEN [panic |-> PanicHeaderKey, df |-> cleared]
    ELSE IF d.column_headers[column] >= Len(d.columns)
    THEN [panic |-> PanicColumnsIdx, df |-> cleared]
    ELSE LET c == d.columns[d.column_headers[column] + 1] IN
         IF c.tag = "TextVector"
         THEN [panic |-> NoPanic,
               df |-> [cleared EXCEPT !.index_str = InsertFrom(@, c.v, 0)]]
         ELSE [panic |-> PanicNotText, df |-> cleared]

SetIndex(column) ==
    /\ pc = "ready"
    /\ LET r == set_index(df, column) IN
          /\ df' = r.df
          /\ last' = Call("set_index", column, r.panic)
          /\ pc' = IF r.panic = NoPanic THEN "ready" ELSE "aborted"
    /\ old_index' = df.index_str
    /\ ntokens' = <<>>
    /\ UNCHANGED <<line, fault, origin>>

\* ---------------------------------------------------------------- move_col
\* Vec::remove(index)
Remove(v, index) == SubSeq(v, 1, index) \o SubSeq(v, index + 2, Len(v))

move_col(d, column) ==
    IF column \notin DOMAIN d.column_headers
    THEN [panic |-> PanicMoveExpect, df |-> d]
    ELSE IF d.column_headers[column] >= Len(d.columns)
    THEN [panic |-> PanicMoveIdx, df |-> d]
    ELSE [panic |-> NoPanic,
          df |-> [d EXCEPT !.columns = Remove(@, d.column_headers[column])]]

MoveCol(column) ==
    /\ pc = "ready"
    /\ LET r == move_col(df, column) IN
          /\ df' = r.df
          /\ last' = Call("move_col", column, r.panic)
          /\ pc' = IF r.panic = NoPanic THEN "ready" ELSE "aborted"
          /\ origin' = IF r.panic = NoPanic
                       THEN Remove(origin, df.column_headers[column]) ELSE origin
    /\ old_index' = df.index_str
    /\ ntokens' = <<>>
    /\ UNCHANGED <<line, fault>>

\* ------------------------------------------------------------ col, loc, len
col(d, column) ==
    IF column \notin DOMAIN d.column_headers THEN Panic(PanicColExpect)
    ELSE IF d.column_headers[column] >= Len(d.columns) THEN Panic(PanicColIdx)
    ELSE Ok(d.columns[d.column_headers[column] + 1])

\* Indexer::Key(k) => self.index_str[k]
KeyIndex(d, k) == IF k \in DOMAIN d.index_str THEN Ok(d.index_str[k]) ELSE Panic(PanicIndexStr)

loc(d, key, column) ==
    LET c == col(d, column)
        idx == IF key.tag = "Index" THEN Ok(key.i) ELSE KeyIndex(d, key.k)
    IN  IF ~IsOk(c) THEN c
        ELSE IF ~IsOk(idx) THEN idx
        ELSE IF idx.val >= Len(c.val.v)
             THEN Panic(IF c.val.tag = "RealVector" THEN PanicRealIdx ELSE PanicTextIdx)
        ELSE IF c.val.tag = "RealVector"
             THEN Ok(DataViewReal(c.val.v[idx.val + 1]))
             ELSE Ok(DataViewText(c.val.v[idx.val + 1]))

\* Option: Some(x) and None
Some(x) == [some |-> TRUE, x |-> x]
None == [some |-> FALSE, x |-> <<>>]

loc_real(d, key, column) ==
    LET r == loc(d, key, column) IN
    IF ~IsOk(r) THEN r
    ELSE IF r.val.tag = "Real" THEN Ok(Some(r.val.val)) ELSE Ok(None)

loc_text(d, key, column) ==
    LET r == loc(d, key, column) IN
    IF ~IsOk(r) THEN r
    ELSE IF r.val.tag = "Real" THEN Ok(None) ELSE Ok(Some(r.val.val))

\* len() reading the last column instead of the first.
lenOfLastColumn(d) ==
    IF Len(d.columns) = 0 THEN Panic(PanicLenIdx) ELSE Ok(Len(d.columns[Len(d.columns)].v))

len(d) == IF Len(d.columns) = 0 THEN Panic(PanicLenIdx) ELSE Ok(Len(d.columns[1].v))

\* -------------------------------------------------- DataVector: add and sub
\* a.iter().zip(b.iter()).map(f).collect()
ZipSum(a, b) == [i \in 1..Min(Len(a), Len(b)) |-> a[i] + b[i]]
ZipDiff(a, b) == [i \in 1..Min(Len(a), Len(b)) |-> a[i] - b[i]]

add(self, other) ==
    IF self.tag = "RealVector"
    THEN IF other.tag = "RealVector"
         THEN Ok(RealVector(ZipSum(self.v, other.v)))
         ELSE Panic(PanicAddRhs)
    ELSE Panic(PanicAddLhs)

sub(self, other) ==
    IF self.tag = "RealVector"
    THEN IF other.tag = "RealVector"
         THEN IF Len(self.v) = Len(other.v)
              THEN Ok(RealVector(ZipDiff(self.v, other.v)))
              ELSE Panic(PanicSubLen)
         ELSE Panic(PanicSubRhs)
    ELSE Panic(PanicSubLhs)

\* ------------------------------------------------------------------- Next
Next ==
    \/ HeaderStep
    \/ HeaderPanic
    \/ HeaderEof
    \/ HeaderIoErr
    \/ SetupColumns
    \/ DataStep
    \/ DataPanic
    \/ DataIoErr
    \/ DataEof
    \/ \E column \in ColNames : SetIndex(column)
    \/ \E column \in ColNames : MoveCol(column)

Spec == Init /\ [][Next]_vars

\* ================================================================ claims
\* The names and keys the calls are made with.
Keys == {TokX, Tok1, Star, <<"y">>}

\* open has returned the table and no call has been made on it yet.
Opened == pc = "ready" /\ last.op = "open"
\* The last call was set_index(last.column) and it returned.
Indexed == pc = "ready" /\ last.op = "set_index" /\ last.panic = NoPanic
\* The cells of the column a name resolves to.
Cells(d, column) == col(d, column).val.v
\* The last position of vec that holds v.
LastPos(vec, v) ==
    CHOOSE j \in 0..(Len(vec) - 1) :
        vec[j + 1] = v /\ \A k \in (j + 1)..(Len(vec) - 1) : vec[k + 1] # v
Range(vec) == {vec[i] : i \in 1..Len(vec)}

\* ---------------------------------------------------------------- C1
\* C1 as stated: after set_index(X), for every row position i < len(X) and
\* every column C, loc(Key(X[i]), C) returns the same cell view as
\* loc(Index(i), C).
C1_KeyEqualsOrdinal ==
    Indexed =>
        \A i \in 0..(Len(Cells(df, last.column)) - 1) : \A c \in ColNames :
            loc(df, Key(Cells(df, last.column)[i + 1]), c) = loc(df, Index(i), c)

\* C1 amended: after set_index(X), for every row position i < len(X) and every
\* column C, loc(Key(X[i]), C) returns what loc(Index(j), C) returns for the
\* last position j of X that holds the value X[i]; so it equals
\* loc(Index(i), C) for every i whose value does not occur again further down.
C1_KeyEqualsLastOrdinal ==
    Indexed =>
        \A i \in 0..(Len(Cells(df, last.column)) - 1) : \A c \in ColNames :
            LET X == Cells(df, last.column) IN
            /\ loc(df, Key(X[i + 1]), c) = loc(df, Index(LastPos(X, X[i + 1])), c)
            /\ (\A k \in (i + 1)..(Len(X) - 1) : X[k + 1] # X[i + 1])
                  => loc(df, Key(X[i + 1]), c) = loc(df, Index(i), c)

\* An index built from a column that holds one value at two positions, with
\* another column whose cells at these two positions differ.
C1_Witness ==
    /\ Indexed
    /\ \E i, j \in 0..(Len(Cells(df, last.column)) - 1) : \E c \in ColNames :
          /\ i < j
          /\ Cells(df, last.column)[i + 1] = Cells(df, last.column)[j + 1]
          /\ IsOk(loc(df, Index(i), c))
          /\ IsOk(loc(df, Index(j), c))
          /\ loc(df, Index(i), c) # loc(df, Index(j), c)

\* ---------------------------------------------------------------- C2
\* C2: whenever the caller holds the table, every entry name -> p of
\* column_headers has p < columns.len() and columns[p] is the column created
\* for that name; after move_col(c) has returned, c has no entry any more.
C2_HeadersMatchColumns ==
    pc \in {"ready", "aborted"} =>
        /\ \A name \in DOMAIN df.column_headers :
              /\ df.column_headers[name] < Len(df.columns)
              /\ df.colnames[origin[df.column_headers[name] + 1] + 1] = name
        /\ (last.op = "move_col" /\ last.panic = NoPanic)
              => last.column \notin DOMAIN df.column_headers

\* ---------------------------------------------------------------- C3
\* C3: in every table open returns, all columns have the same length, the
\* number of data lines read, and each column has the variant of its type tag.
C3_EqualLengths ==
    Opened =>
        \A i \in 1..Len(df.columns) :
            /\ Len(df.columns[i].v) = Len(ntokens)
            /\ df.columns[i].tag = NewColumn(df.coltypes[i]).tag

\* ---------------------------------------------------------------- C4
\* C4: for every input whose lines after the header are rows (each has at
\* least one token), len() of the table open returns is the number of lines
\* that follow the line on which header parsing ended.
C4_LenIsDataLines ==
    (Opened /\ \A r \in 1..Len(ntokens) : ntokens[r] >= 1)
        => len(df) = Ok(Len(ntokens))

\* Two data lines were read, one of them with fewer tokens than columns.
C4_Witness ==
    /\ Opened
    /\ Len(ntokens) >= 2
    /\ \A r \in 1..Len(ntokens) : ntokens[r] >= 1
    /\ \E r \in 1..Len(ntokens) : ntokens[r] < Len(df.columns)

\* ---------------------------------------------------------------- C5
\* C5: loc(Key(k), c) fails when set_index was never called and fails when
\* the index exists and lacks k, and the two failures differ.  A table on
\* which set_index was never called is the table with the index_str open
\* gave it; the code keeps no other trace of set_index.
C5_KeyFailuresDiffer ==
    Indexed =>
        \A k \in Keys \ DOMAIN df.index_str : \A c \in ColNames :
            LET unknown_key == loc(df, Key(k), c)
                index_not_set == loc([df EXCEPT !.index_str = NewDf.index_str], Key(k), c)
            IN  IsOk(col(df, c)) =>
                    /\ ~IsOk(unknown_key)
                    /\ ~IsOk(index_not_set)
                    /\ unknown_key.panic # index_not_set.panic

\* ---------------------------------------------------------------- C6
\* C6: a set_index(c) that fails leaves the row index as it was: every key
\* lookup that succeeded before the call returns the same result after it.
C6_FailedSetIndexKeepsIndex ==
    (last.op = "set_index" /\ last.panic # NoPanic) =>
        \A k \in DOMAIN old_index : \A c \in ColNames :
            LET before == loc([df EXCEPT !.index_str = old_index], Key(k), c) IN
            IsOk(before) => loc(df, Key(k), c) = before

\* ---------------------------------------------------------------- C7
\* C7: after a successful set_index(c) the row index holds exactly the values
\* of column c, each mapped to a position of c that holds it, whatever the
\* index was before; and set_index(c) once more leaves the same table.
C7_IndexFromColumnAlone ==
    Indexed =>
        LET X == Cells(df, last.column) IN
        /\ DOMAIN df.index_str = Range(X)
        /\ \A k \in DOMAIN df.index_str :
              /\ df.index_str[k] < Len(X)
              /\ X[df.index_str[k] + 1] = k
        /\ set_index(df, last.column) = [panic |-> NoPanic, df |-> df]

\* set_index(c) was called on a table whose index held a key that column c
\* does not hold.
C7_Witness ==
    /\ Indexed
    /\ \E k \in DOMAIN old_index : k \notin Range(Cells(df, last.column))

\* ---------------------------------------------------------------- C8
\* C8: add and sub follow one policy: each returns exactly when both operands
\* are real columns of equal length, and then the real column of the
\* element-wise sums (differences); each fails for a text operand, and each
\* fails for real operands of different lengths.
PolicyHolds(a, b, r, elementwise) ==
    /\ IsOk(r) <=> (a.tag = "RealVector" /\ b.tag = "RealVector" /\ Len(a.v) = Len(b.v))
    /\ IsOk(r) =>
          /\ r.val.tag = "RealVector"
          /\ Len(r.val.v) = Len(a.v)
          /\ \A i \in 1..Len(a.v) : r.val.v[i] = elementwise[i]
    /\ (a.tag = "TextVector" \/ b.tag = "TextVector")
          => r.panic \in {PanicAddLhs, PanicAddRhs, PanicSubLhs, PanicSubRhs}
    /\ (a.tag = "RealVector" /\ b.tag = "RealVector" /\ Len(a.v) # Len(b.v))
          => ~IsOk(r)

C8_OnePolicy ==
    pc = "ready" =>
        \A i, j \in 1..Len(df.columns) :
            LET a == df.columns[i]
                b == df.columns[j]
            IN  /\ PolicyHolds(a, b, add(a, b), [n \in 1..Len(a.v) |-> a.v[n] + b.v[n]])
                /\ PolicyHolds(a, b, sub(a, b), [n \in 1..Len(a.v) |-> a.v[n] - b.v[n]])

\* ---------------------------------------------------------------- C9
\* C9: for the table open returns, with n = len(), and every column c it has:
\* loc(Index(n), c) fails with an index out of range, and when n > 0,
\* loc(Index(n - 1), c) returns the last cell of c.
C9_OrdinalBoundary ==
    Opened =>
        \A c \in DOMAIN df.column_headers :
            LET n == len(df).val
                cells == Cells(df, c)
            IN  /\ loc(df, Index(n), c).panic \in {PanicRealIdx, PanicTextIdx}
                /\ n > 0 =>
                      /\ IsOk(loc(df, Index(n - 1), c))
                      /\ loc(df, Index(n - 1), c).val.val = cells[Len(cells)]

\* ---------------------------------------------------------------- C10
\* C10: when the input ends inside the header, or a property value or a data
\* cell of a real column is no number, open panics, its table is dropped and
\* no table is ever returned.
C10_NoTableOnFailure ==
    /\ fault = "eof" => (pc = "panicked" /\ df = NewDf /\ last.panic = PanicEof)
    /\ fault = "parse" =>
          (pc = "panicked" /\ df = NewDf /\ last.panic \in {PanicPropParse, PanicCellParse})
    /\ pc \in {"ready", "aborted"} => HeaderParsed(df)

\* The input ended inside the header.
C10_Witness == fault = "eof" /\ pc = "panicked" /\ last.panic = PanicEof

\* ---------------------------------------------------------------- C11
\* C11: whenever the caller holds the table, for every column name that
\* resolves to a column and every cell i of that column: when the column was
\* created for the type tag `%le`, loc_real(i) is Some and loc_text(i) is
\* None; when it was created for any other tag, loc_text(i) is Some and
\* loc_real(i) is None.
C11_NarrowingFollowsTag ==
    pc \in {"ready", "aborted"} =>
        \A c \in ColNames :
            IsOk(col(df, c)) =>
                LET p == df.column_headers[c]
                    tag == df.coltypes[origin[p + 1] + 1]
                IN  \A i \in 0..(Len(Cells(df, c)) - 1) :
                        LET real == loc_real(df, Index(i), c)
                            text == loc_text(df, Index(i), c)
                        IN  /\ IsOk(real) /\ IsOk(text)
                            /\ tag = TagLe => (real.val.some /\ ~text.val.some)
                            /\ tag # TagLe => (text.val.some /\ ~real.val.some)

\* A table with a cell in a `%le` column and a cell in a column of another tag.
C11_Witness ==
    /\ Opened
    /\ \E c1, c2 \in ColNames :
          /\ IsOk(loc_real(df, Index(0), c1)) /\ loc_real(df, Index(0), c1).val.some
          /\ IsOk(loc_text(df, Index(0), c2)) /\ loc_text(df, Index(0), c2).val.some

\* ---------------------------------------------------------------- C12
\* C12: the header loop runs exactly while the name list or the type list is
\* empty, so it is left by the first line after which both are non-empty,
\* whether that is the `*` or the `$` line; every line read after that,
\* also one that starts with `@`, `*` or `$`, is counted as a data line and
\* changes no property, no column name and no column type.
BothListed(d) == Len(d.colnames) > 0 /\ Len(d.coltypes) > 0

C12_HeaderEndsOnce ==
    [][ /\ pc' = "header" => ~BothListed(df')
        /\ pc' \in {"setup", "data", "ready", "aborted"} => BothListed(df')
        /\ (pc = "data" /\ pc' = "data") =>
              /\ df'.colnames = df.colnames
              /\ df'.coltypes = df.coltypes
              /\ df'.properties = df.properties
              /\ df'.column_headers = df.column_headers
              /\ Len(ntokens') = Len(ntokens) + 1
              /\ \A i \in 1..Len(df.columns) :
                    Len(df'.columns[i].v) =
                        Len(df.columns[i].v) + (IF i <= Len(line') THEN 1 ELSE 0)
      ]_vars

\* A line that starts with `*` was read after the header and went into the
\* first column, in a table with one column name and two type tags.
C12_Witness ==
    /\ pc = "data"
    /\ Len(ntokens) >= 1
    /\ line # <<>> /\ Head(line) = Star
    /\ df.columns[1].v[Len(df.columns[1].v)] = Star
    /\ Len(df.colnames) = 1
    /\ Len(df.coltypes) = 2

\* ---------------------------------------------------------------- C13
\* C13: after a successful set_index(c), a value that column c holds at
\* several positions is mapped to the largest of them, and the index has
\* exactly one entry for each distinct value of c.
C13_LastKeyWins ==
    Indexed =>
        LET X == Cells(df, last.column) IN
        /\ \A i \in 1..Len(X) :
              /\ X[i] \in DOMAIN df.index_str
              /\ df.index_str[X[i]] >= i - 1
              /\ df.index_str[X[i]] = LastPos(X, X[i])
        /\ Cardinality(DOMAIN df.index_str) = Cardinality(Range(X))

\* The indexed column holds one value at two positions and another value too.
C13_Witness ==
    /\ Indexed
    /\ \E i, j \in 1..Len(Cells(df, last.column)) :
          /\ i < j
          /\ Cells(df, last.column)[i] = Cells(df, last.column)[j]
          /\ df.index_str[Cells(df, last.column)[i]] = j - 1

\* ---------------------------------------------------------------- C16
\* C16: while open reads data lines and in the table it returns, column i
\* (counted from 1) has one cell for each line read that had at least i
\* tokens, whatever the number of tokens beyond the last column; so the
\* column lengths do not increase with the position and len() is the largest.
C16_CellsPerLine ==
    (pc = "data" \/ Opened) =>
        /\ \A i \in 1..Len(df.columns) :
              Len(df.columns[i].v) = Cardinality({r \in 1..Len(ntokens) : ntokens[r] >= i})
        /\ \A i, j \in 1..Len(df.columns) :
              i <= j => Len(df.columns[i].v) >= Len(df.columns[j].v)
        /\ \A i \in 1..Len(df.columns) : len(df).val >= Len(df.columns[i].v)

\* A table read from a line with fewer tokens than columns and a line with
\* more tokens than columns.
C16_Witness ==
    /\ Opened
    /\ \E r \in 1..Len(ntokens) : ntokens[r] >= 1 /\ ntokens[r] < Len(df.columns)
    /\ \E r \in 1..Len(ntokens) : ntokens[r] > Len(df.columns)

\* ---------------------------------------------------------------- C14
\* C14: in the header loop a line that is not a `@`, `*` or `$` line, be its
\* first token another one or is there no token at all, changes neither the
\* properties nor the name list nor the type list, and the loop goes on to
\* the next line.
Ignorable(l) == l = <<>> \/ Head(l) \notin {At, Star, Dollar}

C14_OtherLinesIgnored ==
    [][ ((HeaderStep \/ HeaderPanic) /\ Ignorable(line'))
            => (pc' = "header" /\ df' = df) ]_vars

\* ---------------------------------------------------------------- C15
\* C15: the cell a data line's token leaves in a text column is the token
\* without one pair of surrounding quotes when the token starts and ends with
\* a quote (quotes inside that pair stay), and the token itself otherwise.
StripOnePair(t) ==
    IF Len(t) >= 2 /\ t[1] = Quote /\ t[Len(t)] = Quote
    THEN SubSeq(t, 2, Len(t) - 1) ELSE t

C15_OnePairStripped ==
    (pc = "data" /\ Len(ntokens) >= 1) =>
        \A i \in 1..Min(Len(line), Len(df.columns)) :
            df.columns[i].tag = "TextVector"
                => df.columns[i].v[Len(df.columns[i].v)] = StripOnePair(line[i])

====
